---------------------------- MODULE Spec2Model ----------------------------
(***************************************************************************)
(* A model of typed-routing (src/src/lib.rs): the shape vocabulary, the    *)
(* FromRequest / IntoResponse marker-trait relations that handled_by       *)
(* demands, the routes! / define_route_type! expansion of URIs, and the    *)
(* typed client RequestBuilder -> Request -> Response chain.               *)
(*                                                                         *)
(* Rust types are modelled as values.  A trait bound is modelled as the    *)
(* predicate "some impl in lib.rs applies", and a method that exists only  *)
(* in some impl block is an action guarded by that impl's header.          *)
(***************************************************************************)
EXTENDS Naturals, Sequences, FiniteSets, TLC

VARIABLES
    attempt,      \* the last handled_by instantiation the compiler was given
    handled,      \* the Handled<Route, F> value handled_by returned, if any
    modules,      \* the modules of the crate, each with its URI constant
    descriptors,  \* the Route impls that define_route_type! has produced
    stage,        \* where one client call attempt stands
    route,        \* the Route the attempt's RequestBuilder is typed with
    query,        \* RequestBuilder.query: the held typed query
    body,         \* RequestBuilder.body: the held body
    builder,      \* RequestBuilder.builder: gloo_net's request builder
    outcome,      \* what build() returned
    applied,      \* the apply calls build() made, in order
    request,      \* Request.request: gloo_net's request
    sends,        \* how many times the transport was asked to send
    response,     \* Response.response: gloo_net's response
    decodes       \* what each Response::json call returned, in order

serverVars == <<attempt, handled>>
tableVars == <<modules, descriptors>>
callVars == <<stage, route, query, body, builder, outcome, applied, request,
              sends>>
responseVars == <<response, decodes>>

-----------------------------------------------------------------------------
(* Bounds of the model. *)

\* Tuples one element longer than the longest impl_from_request! are tried.
ExtraArity == 1

\* How many modules invoke routes!.
MaxModules == 3

\* How many pairs a typed query value has at most.
MaxPairs == 2

\* How many extra_query calls one builder receives at most.
MaxExtra == 2

\* How many times Response::json is called on one Response at most.
MaxDecodes == 3

(* The longest tuple impl_from_request! is invoked for (A .. P). *)
MaxArity == 16

-----------------------------------------------------------------------------
(* The shape vocabulary: lib.rs 58-73.  T ranges over payload type names. *)

PayloadTypes == {"T1", "T2"}

NoQuery == [k |-> "NoQuery", t |-> "-"]

QueryShape(T) == [k |-> "Query", t |-> T]

NoBody == [k |-> "NoBody", t |-> "-"]

JsonBody(T) == [k |-> "JsonBody", t |-> T]

QueryShapes == {NoQuery} \cup {QueryShape(T) : T \in PayloadTypes}

BodyShapes == {NoBody} \cup {JsonBody(T) : T \in PayloadTypes}

-----------------------------------------------------------------------------
(* Handler argument and result types.  Every type is a record             *)
(* [k, t, elems]: its constructor, its payload type and its type          *)
(* arguments.                                                             *)

\* actix_web::web::Json<T>
ActixJson(T) == [k |-> "ActixJson", t |-> T, elems |-> <<>>]

\* actix_web::web::Query<T>
ActixQuery(T) == [k |-> "ActixQuery", t |-> T, elems |-> <<>>]

\* A type lib.rs says nothing about (HttpRequest, HttpResponse, String, ...).
Opaque == [k |-> "Opaque", t |-> "-", elems |-> <<>>]

\* NoCheck<X>, lib.rs 79
NoCheck(X) == [k |-> "NoCheck", t |-> "-", elems |-> <<X>>]

\* The tuple (e1, ..., en)
Tuple(es) == [k |-> "Tuple", t |-> "-", elems |-> es]

\* Result<T, E>
ResultOf(T, E) == [k |-> "Result", t |-> "-", elems |-> <<T, E>>]

-----------------------------------------------------------------------------
(* FromRequest<Query, Body>: the impls of lib.rs 13-49 and no other.       *)

RECURSIVE FromRequest(_, _, _)

\* A tuple impl that forgets the arity ceiling and looks at the first
\* MaxArity elements only.
FromRequestTruncating(ty, q, b) ==
    CASE ty.k = "ActixJson" -> b = JsonBody(ty.t)
      [] ty.k = "ActixQuery" -> q = QueryShape(ty.t)
      [] ty.k = "Tuple" ->
            \A i \in 1..Len(ty.elems) :
                i <= MaxArity => FromRequest(ty.elems[i], q, b)
      [] OTHER -> FALSE

\* Impls for Json<T> and Query<T> that look at the shape's constructor and
\* not at its T.
FromRequestAnyPayload(ty, q, b) ==
    CASE ty.k = "ActixJson" -> b.k = "JsonBody"
      [] ty.k = "ActixQuery" -> q.k = "Query"
      [] ty.k = "Tuple" ->
            /\ Len(ty.elems) \in 0..MaxArity
            /\ \A i \in 1..Len(ty.elems) : FromRequest(ty.elems[i], q, b)
      [] OTHER -> FALSE

\* The impls plus a default one for the types lib.rs says nothing about.
FromRequestOpaqueDefault(ty, q, b) ==
    CASE ty.k = "ActixJson" -> b = JsonBody(ty.t)
      [] ty.k = "ActixQuery" -> q = QueryShape(ty.t)
      [] ty.k = "Tuple" ->
            /\ Len(ty.elems) \in 0..MaxArity
            /\ \A i \in 1..Len(ty.elems) : FromRequest(ty.elems[i], q, b)
      [] OTHER -> ty.k = "Opaque"

\* The impls for actix's Json<T> and Query<T> and for the tuples of
\* 0..MaxArity elements; no other type has one.
FromRequest(ty, q, b) ==
    CASE ty.k = "ActixJson" -> b = JsonBody(ty.t)
      [] ty.k = "ActixQuery" -> q = QueryShape(ty.t)
      [] ty.k = "Tuple" ->
            /\ Len(ty.elems) \in 0..MaxArity
            /\ \A i \in 1..Len(ty.elems) : FromRequest(ty.elems[i], q, b)
      [] OTHER -> FALSE

(* IntoResponse<Body>: the two impls of lib.rs 54 and 56.                  *)

RECURSIVE IntoResponse(_, _)

\* The Result impl without its bound on T.
IntoResponseUnbounded(ty, r) ==
    IF r = NoBody THEN TRUE ELSE ty.k = "Result"

\* The two impls plus a base case: Json<R> is compatible with JsonBody<R>.
IntoResponseWithBase(ty, r) ==
    IF r = NoBody
    THEN TRUE
    ELSE \/ ty.k = "ActixJson" /\ ty.t = r.t
         \/ ty.k = "Result" /\ IntoResponse(ty.elems[1], r)

\* impl<T> IntoResponse<NoBody> for T, and the impl for Result<T, E>
\* bounded by T: IntoResponse<JsonBody<R>>.
IntoResponse(ty, r) ==
    IF r = NoBody
    THEN TRUE
    ELSE ty.k = "Result" /\ IntoResponse(ty.elems[1], r)

-----------------------------------------------------------------------------
(* Route: lib.rs 153-164, as define_route_type! (480-492) fills it in.     *)

Methods == {"GET", "POST", "PUT", "DELETE", "HEAD", "OPTIONS", "CONNECT",
            "PATCH", "TRACE"}

\* The crate root's constant, lib.rs 501.
URI == "/123"

\* const_str::concat!
Concat(a, b) == a \o b

\* The impl crate::Route that define_route_type! writes inside a module
\* whose parent module's URI constant is superURI.
DefineRouteType(superURI, method, uriPart, name, q, b, r) ==
    [name |-> name, Query |-> q, RequestBody |-> b, ResponseBody |-> r,
     METHOD |-> method, URI_PART |-> uriPart,
     URI |-> Concat(superURI, uriPart)]

\* x::Abc, lib.rs 513: Vec<u8> is T1, (String, u8) is T2.
Abc == DefineRouteType(URI, "POST", "/abc", "Abc",
                       NoQuery, JsonBody("T1"), JsonBody("T2"))

\* Routes of every shape combination, declared at the crate root's side.
ShapeRoutes ==
    {DefineRouteType(URI, "POST", "/r", "R", q, b, r) :
        q \in {NoQuery, QueryShape("T1")},
        b \in BodyShapes,
        r \in {NoBody, JsonBody("T2")}}

-----------------------------------------------------------------------------
(* handled_by: lib.rs 319-335.  Its where clauses are all the compiler     *)
(* checks; an instantiation that fails one does not compile and leaves no  *)
(* Handled value.                                                          *)

\* The element types handlers are written with.
ElemTypes ==
    {ActixJson("T1"), ActixQuery("T1"), ActixJson("T2"), ActixQuery("T2"),
     Opaque, NoCheck(Opaque), NoCheck(ActixJson("T1")), Tuple(<<>>),
     Tuple(<<ActixJson("T1")>>)}

\* The element types the long argument lists are filled with.
FillTypes == {ActixJson("T1"), ActixQuery("T1")}

\* Args: the tuples of 0 .. MaxArity + ExtraArity elements that are all
\* one fill type except, at one position, any element type.
ArgLists ==
    {Tuple(<<>>)} \cup
    {Tuple([i \in 1..n |-> IF i = p THEN odd ELSE fill]) :
        <<n, p>> \in {np \in (1..(MaxArity + ExtraArity)) \X
                              (1..(MaxArity + ExtraArity)) : np[2] <= np[1]},
        fill \in FillTypes, odd \in ElemTypes}

\* F::Output
OutTypes ==
    {Opaque, ActixJson("T2"), ResultOf(Opaque, Opaque),
     ResultOf(ActixJson("T2"), Opaque),
     ResultOf(ResultOf(ActixJson("T2"), Opaque), ActixJson("T2"))}

NoAttempt ==
    [made |-> FALSE, route |-> Abc, args |-> Tuple(<<>>), out |-> Opaque,
     argsOk |-> FALSE, outOk |-> FALSE]

NoHandled ==
    [present |-> FALSE, route |-> Abc, args |-> Tuple(<<>>), out |-> Opaque]

\* handled_by with the bound on F::Output left out.
HandledByAcceptsArgsOnly(rt, args, out) ==
    FromRequest(args, rt.Query, rt.RequestBody)

\* The where clauses of handled_by.
HandledByAccepts(rt, args, out) ==
    /\ FromRequest(args, rt.Query, rt.RequestBody)
    /\ IntoResponse(out, rt.ResponseBody)

\* One instantiation handled_by::<Route, Args, F>(f).
HandledBy(rt, args, out) ==
    /\ ~attempt.made
    /\ attempt' =
          [made |-> TRUE, route |-> rt, args |-> args, out |-> out,
           argsOk |-> FromRequest(args, rt.Query, rt.RequestBody),
           outOk |-> IntoResponse(out, rt.ResponseBody)]
    /\ handled' =
          IF HandledByAccepts(rt, args, out)
          THEN [present |-> TRUE, route |-> rt, args |-> args,
                out |-> out]
          ELSE handled
    /\ UNCHANGED <<tableVars, callVars, responseVars>>

-----------------------------------------------------------------------------
(* routes!: lib.rs 438-471, with the route table of lib.rs 501-518.        *)
(* modules[1] is the crate root; every other module was written by one     *)
(* routes! invocation inside `parent`.                                     *)

CrateRoot == [parent |-> 0, scope |-> URI, URI |-> URI]

\* The outer route of mod x, lib.rs 513.
AbcDecl ==
    [method |-> "POST", uriPart |-> "/abc", name |-> "Abc",
     Query |-> NoQuery, RequestBody |-> JsonBody("T1"),
     ResponseBody |-> JsonBody("T2")]

OtherDecl ==
    [method |-> "GET", uriPart |-> "/c", name |-> "Other",
     Query |-> QueryShape("T1"), RequestBody |-> NoBody,
     ResponseBody |-> NoBody]

\* The outer_routes lists a routes! invocation is given (the list is
\* optional).
OuterRouteLists == {<<>>, <<AbcDecl>>, <<AbcDecl, OtherDecl>>}

\* The scope: prefixes a routes! invocation is given.
Scopes == {"/xyz", "/a"}

\* define_route_type! that forgets the enclosing URI.
RouteOfDeclLocal(superURI, decl) ==
    DefineRouteType("", decl.method, decl.uriPart, decl.name,
                    decl.Query, decl.RequestBody, decl.ResponseBody)

\* lib.rs 467-469: define_route_type!($($outer_route)*), expanded in the
\* invoking module, where super::URI is the parent module's constant.
RouteOfDecl(superURI, decl) ==
    DefineRouteType(superURI, decl.method, decl.uriPart, decl.name,
                    decl.Query, decl.RequestBody, decl.ResponseBody)

\* One routes! { scope: scope; outer_routes: outer; .. } written in a new
\* module inside module `parent`.
RoutesMacro(parent, scope, outer) ==
    /\ Len(modules) <= MaxModules
    /\ parent \in 1..Len(modules)
    /\ LET superURI == modules[parent].URI
           m == Len(modules) + 1
       IN /\ modules' =
                Append(modules,
                       [parent |-> parent, scope |-> scope,
                        URI |-> Concat(superURI, scope)])
          /\ descriptors' =
                descriptors \cup
                {[mod |-> m, route |-> RouteOfDecl(superURI, outer[i])] :
                    i \in 1..Len(outer)}
    /\ UNCHANGED <<serverVars, callVars, responseVars>>

-----------------------------------------------------------------------------
(* Strings whose characters matter are sequences of one-character strings. *)
(* The codecs the client calls: serde_urlencoded::to_string (lib.rs 119),  *)
(* str::split / split_once (120), gloo_net's RequestBuilder::query (121,   *)
(* 203) and json / build (139, 149), which read the pairs and the body     *)
(* back when the transport request is made.                                *)

\* Bytes application/x-www-form-urlencoded leaves as they are.
SafeChars ==
    {"a", "b", "j", "k", "x", "y", "0", "1", "2", "3", "5", "6", "B", "D",
     "*", "-", ".", "_"}

\* One byte in application/x-www-form-urlencoded: a space as "+", every
\* other byte outside SafeChars as %XX.
FormEncodeChar(c) ==
    CASE c \in SafeChars -> <<c>>
      [] c = " " -> <<"+">>
      [] c = "&" -> <<"%", "2", "6">>
      [] c = "=" -> <<"%", "3", "D">>
      [] c = "+" -> <<"%", "2", "B">>
      [] c = "%" -> <<"%", "2", "5">>

RECURSIVE FormEncodeStr(_)
FormEncodeStr(s) ==
    IF s = <<>> THEN <<>>
    ELSE FormEncodeChar(Head(s)) \o FormEncodeStr(Tail(s))

\* key=value&key=value of a list of pairs, each key and value encoded:
\* what form_urlencoded::Serializer and URLSearchParams' toString write.
RECURSIVE FormSerialize(_)
FormSerialize(pairs) ==
    IF pairs = <<>> THEN <<>>
    ELSE FormEncodeStr(Head(pairs)[1]) \o <<"=">> \o
         FormEncodeStr(Head(pairs)[2]) \o
         (IF Tail(pairs) = <<>> THEN <<>>
          ELSE <<"&">> \o FormSerialize(Tail(pairs)))

\* The byte a %XX of the strings above stands for.
PercentDecode(h1, h2) ==
    CASE <<h1, h2>> = <<"2", "6">> -> "&"
      [] <<h1, h2>> = <<"3", "D">> -> "="
      [] <<h1, h2>> = <<"2", "B">> -> "+"
      [] <<h1, h2>> = <<"2", "5">> -> "%"
      [] OTHER -> "?"

\* What a server reads back from one encoded key or value.
RECURSIVE FormDecodeStr(_)
FormDecodeStr(s) ==
    IF s = <<>> THEN <<>>
    ELSE IF Head(s) = "+" THEN <<" ">> \o FormDecodeStr(Tail(s))
    ELSE IF Head(s) = "%" /\ Len(s) >= 3
         THEN <<PercentDecode(s[2], s[3])>> \o
              FormDecodeStr(SubSeq(s, 4, Len(s)))
    ELSE <<Head(s)>> \o FormDecodeStr(Tail(s))

\* The position of the first c in s, or 0.
RECURSIVE IndexOf(_, _)
IndexOf(s, c) ==
    IF s = <<>> THEN 0
    ELSE IF Head(s) = c THEN 1
    ELSE LET i == IndexOf(Tail(s), c) IN IF i = 0 THEN 0 ELSE i + 1

\* str::split(c): the pieces between the c's; one empty piece for "".
RECURSIVE Split(_, _)
Split(s, c) ==
    LET i == IndexOf(s, c)
    IN IF i = 0 THEN <<s>>
       ELSE <<SubSeq(s, 1, i - 1)>> \o Split(SubSeq(s, i + 1, Len(s)), c)

\* filter_map(|pair| pair.split_once('=')): a piece without "=" is
\* dropped, the others are cut at their first "=".
RECURSIVE SplitOncePairs(_)
SplitOncePairs(pieces) ==
    IF pieces = <<>> THEN <<>>
    ELSE LET p == Head(pieces)
             i == IndexOf(p, "=")
         IN (IF i = 0 THEN <<>>
             ELSE << <<SubSeq(p, 1, i - 1), SubSeq(p, i + 1, Len(p))>> >>)
            \o SplitOncePairs(Tail(pieces))

\* The pairs a server's form decoder reads from a query string.
RECURSIVE DecodePairs(_)
DecodePairs(pairs) ==
    IF pairs = <<>> THEN <<>>
    ELSE << <<FormDecodeStr(Head(pairs)[1]),
              FormDecodeStr(Head(pairs)[2])>> >>
         \o DecodePairs(Tail(pairs))

FormParse(search) == DecodePairs(SplitOncePairs(Split(search, "&")))

\* serde_json on a Vec<u8>: [b1,b2,..], as a sequence of tokens.
DigitChars == <<"0", "1", "2", "3", "4", "5", "6", "7", "8", "9">>

RECURSIVE JsonItems(_)
JsonItems(bytes) ==
    IF bytes = <<>> THEN <<>>
    ELSE <<DigitChars[Head(bytes) + 1]>> \o
         (IF Tail(bytes) = <<>> THEN <<>>
          ELSE <<",">> \o JsonItems(Tail(bytes)))

JsonEncode(bytes) == <<"[">> \o JsonItems(bytes) \o <<"]">>

DigitValue(c) == CHOOSE n \in 0..9 : DigitChars[n + 1] = c

IsDigit(c) == \E n \in 0..9 : DigitChars[n + 1] = c

\* The items of a comma separated list of digits: [ok, val].
RECURSIVE JsonParseItems(_)
JsonParseItems(toks) ==
    IF toks = <<>> THEN [ok |-> FALSE, val |-> <<>>]
    ELSE IF ~IsDigit(Head(toks)) THEN [ok |-> FALSE, val |-> <<>>]
    ELSE IF Len(toks) = 1
         THEN [ok |-> TRUE, val |-> <<DigitValue(Head(toks))>>]
    ELSE IF toks[2] # "," THEN [ok |-> FALSE, val |-> <<>>]
    ELSE LET rest == JsonParseItems(SubSeq(toks, 3, Len(toks)))
         IN IF ~rest.ok THEN rest
            ELSE [ok |-> TRUE,
                  val |-> <<DigitValue(Head(toks))>> \o rest.val]

\* serde_json::from_str::<Vec<u8>>: [ok, val].
JsonDecode(toks) ==
    IF Len(toks) < 2 \/ toks[1] # "[" \/ toks[Len(toks)] # "]"
    THEN [ok |-> FALSE, val |-> <<>>]
    ELSE IF Len(toks) = 2 THEN [ok |-> TRUE, val |-> <<>>]
    ELSE JsonParseItems(SubSeq(toks, 2, Len(toks) - 1))

-----------------------------------------------------------------------------
(* The client: RequestBuilder, Request and Response, lib.rs 95-317.        *)

\* A method outside the nine arms of the match in RequestBuilder::new.
ExtensionMethod == "PROPFIND"

\* The routes a client builds requests for.
ClientRoutes ==
    {DefineRouteType(URI, m, "/r", "R", q, b, r) :
        m \in {"POST"},
        q \in {NoQuery, QueryShape("T1")},
        b \in {NoBody, JsonBody("T1")},
        r \in {NoBody, JsonBody("T2")}}
    \cup {Abc}
    \cup {DefineRouteType(URI, m, "/m", "M", NoQuery, NoBody, NoBody) :
            m \in Methods \cup {ExtensionMethod}}
    \cup {DefineRouteType(URI, "GET", "/g", "G",
                          NoQuery, JsonBody("T1"), NoBody)}

\* Values of a query type T: a flat list of key/value pairs, or a value
\* serde_urlencoded refuses (ok = FALSE).
Keys == {<<"k">>, <<"j">>}

Vals == {<<>>, <<"a">>, <<"a", " ", "b">>}

RECURSIVE PairListsUpTo(_)
PairListsUpTo(n) ==
    IF n = 0 THEN {<<>>}
    ELSE LET shorter == PairListsUpTo(n - 1)
         IN shorter \cup
            {Append(ps, <<key, val>>) :
                ps \in {l \in shorter : Len(l) = n - 1},
                key \in Keys, val \in Vals}

QueryValues ==
    {[ok |-> FALSE, pairs |-> <<>>]} \cup
    {[ok |-> TRUE, pairs |-> ps] : ps \in PairListsUpTo(MaxPairs)}

\* Values of a body type T: a Vec<u8>, or a value serde_json refuses.
BodyValues ==
    {[ok |-> FALSE, val |-> <<>>]} \cup
    {[ok |-> TRUE, val |-> v] : v \in {<<>>, <<7>>, <<1, 2, 3>>}}

\* The params one extra_query call is given.
ExtraParams == {<< <<(<<"x">>), (<<"1">>)>> >>, << <<(<<"y">>), (<<" ">>)>> >>}

\* query: NoQuery and body: NoBody, as RequestBuilder::new sets them.
HeldNoQuery == [shape |-> NoQuery, val |-> [ok |-> TRUE, pairs |-> <<>>]]

HeldNoBody == [shape |-> NoBody, val |-> [ok |-> TRUE, val |-> <<>>]]

NoBuilder == [method |-> "-", url |-> "", params |-> <<>>]

NoRequest ==
    [method |-> "-", url |-> "", search |-> <<>>, hasBody |-> FALSE,
     body |-> <<>>]

NoResponse == [present |-> FALSE, hasBody |-> FALSE, bodyUsed |-> FALSE,
               body |-> <<>>]

\* A Query<T>::apply that puts the typed pairs in front of the pairs the
\* builder already has.
ApplyHeadPrepends(q, bld) ==
    IF q.shape = NoQuery
    THEN [ok |-> TRUE, builder |-> bld]
    ELSE IF ~q.val.ok
         THEN [ok |-> FALSE, builder |-> bld]
         ELSE LET params == FormSerialize(q.val.pairs)
                  split == SplitOncePairs(Split(params, "&"))
              IN [ok |-> TRUE,
                  builder |-> [bld EXCEPT !.params = split \o @]]

\* ApplyToRequestHead::apply, lib.rs 103-123.
ApplyHead(q, bld) ==
    IF q.shape = NoQuery
    THEN [ok |-> TRUE, builder |-> bld]
    ELSE IF ~q.val.ok
         THEN [ok |-> FALSE, builder |-> bld]
         ELSE LET params == FormSerialize(q.val.pairs)
                  split == SplitOncePairs(Split(params, "&"))
              IN [ok |-> TRUE,
                  builder |-> [bld EXCEPT !.params = @ \o split]]

\* The fields of a RequestBuilder value, lib.rs 166-171: what the three
\* methods below take as self and return.
Held == [query |-> query, body |-> body, builder |-> builder]

\* The value extra_query returns, lib.rs 202-205.
WithExtraQuery(s, params) ==
    [query |-> s.query, body |-> s.body,
     builder |-> [s.builder EXCEPT !.params = @ \o params]]

\* The value query returns, lib.rs 210-216.
WithQuery(r, s, v) ==
    [query |-> [shape |-> r.Query, val |-> v], body |-> s.body,
     builder |-> s.builder]

\* json that builds its result from a fresh query field.
WithJsonDropsQuery(r, s, v) ==
    [query |-> HeldNoQuery, body |-> [shape |-> r.RequestBody, val |-> v],
     builder |-> s.builder]

\* The value json returns, lib.rs 221-227.
WithJson(r, s, v) ==
    [query |-> s.query, body |-> [shape |-> r.RequestBody, val |-> v],
     builder |-> s.builder]

\* A transport that makes a request of every builder.
TransportAcceptsAll(bld, hasBody) == TRUE

\* gloo_net's RequestBuilder::build and json end in the Fetch Request
\* constructor, which refuses the methods CONNECT and TRACE, and a body
\* with GET or HEAD; the refusal is the Err they return.
TransportAccepts(bld, hasBody) ==
    /\ bld.method \notin {"CONNECT", "TRACE"}
    /\ hasBody => bld.method \notin {"GET", "HEAD"}

\* gloo_net's builder made into a request: its params are written as the
\* URL's search string.
TransportRequest(bld, hasBody, bytes) ==
    [method |-> bld.method, url |-> bld.url,
     search |-> FormSerialize(bld.params), hasBody |-> hasBody,
     body |-> bytes]

\* ApplyToRequestBody::apply, lib.rs 133-151.
ApplyBody(b, bld) ==
    IF b.shape = NoBody
    THEN IF TransportAccepts(bld, FALSE)
         THEN [ok |-> TRUE, request |-> TransportRequest(bld, FALSE, <<>>)]
         ELSE [ok |-> FALSE, request |-> NoRequest]
    ELSE IF ~b.val.ok \/ ~TransportAccepts(bld, TRUE)
         THEN [ok |-> FALSE, request |-> NoRequest]
         ELSE [ok |-> TRUE,
               request |-> TransportRequest(bld, TRUE,
                                            JsonEncode(b.val.val))]

\* build() that encodes the body before the query.
BuildResultBodyFirst(q, b, bld) ==
    LET tail == ApplyBody(b, bld)
        head == ApplyHead(q, bld)
    IN IF ~tail.ok
       THEN [outcome |-> "BodyError", applied |-> <<"body">>,
             request |-> NoRequest]
       ELSE IF ~head.ok
            THEN [outcome |-> "QueryError", applied |-> <<"body", "query">>,
                  request |-> NoRequest]
            ELSE [outcome |-> "Ok", applied |-> <<"body", "query">>,
                  request |-> ApplyBody(b, head.builder).request]

\* The body of RequestBuilder::build, lib.rs 253-266.
BuildResult(q, b, bld) ==
    LET head == ApplyHead(q, bld)
    IN IF ~head.ok
       THEN [outcome |-> "QueryError", applied |-> <<"query">>,
             request |-> NoRequest]
       ELSE LET tail == ApplyBody(b, head.builder)
            IN IF ~tail.ok
               THEN [outcome |-> "BodyError",
                     applied |-> <<"query", "body">>,
                     request |-> NoRequest]
               ELSE [outcome |-> "Ok", applied |-> <<"query", "body">>,
                     request |-> tail.request]

\* build() offered whenever the held body matches, whatever query is held.
CanBuildBodyOnly(r, q, b) == b.shape = r.RequestBody

\* The impl header of build, lib.rs 238-242: the builder's Query and Body
\* parameters are the Route's Query and RequestBody.
CanBuild(r, q, b) ==
    /\ q.shape = r.Query
    /\ b.shape = r.RequestBody

\* send offered on a builder whose build() failed as well.
CanSendAnyway(st) == st \in {"request", "failed"}

\* send is a method of Request<Route> alone, lib.rs 275-276, and build()
\* is the only function that makes one.
CanSend(st) == st = "request"

\* new() that falls back to GET for a verb it does not list.
NewFallsBack(r) ==
    /\ stage = "start"
    /\ route' = r
    /\ stage' = "builder"
    /\ builder' = [method |-> IF r.METHOD \in Methods THEN r.METHOD
                              ELSE "GET",
                   url |-> r.URI, params |-> <<>>]
    /\ query' = HeldNoQuery
    /\ body' = HeldNoBody
    /\ UNCHANGED <<outcome, applied, request, sends>>
    /\ UNCHANGED <<serverVars, tableVars, responseVars>>

\* RequestBuilder::<Route, _, _>::new(), lib.rs 173-194.
New(r) ==
    /\ stage = "start"
    /\ route' = r
    /\ IF r.METHOD \in Methods
       THEN /\ stage' = "builder"
            /\ builder' = [method |-> r.METHOD, url |-> r.URI,
                           params |-> <<>>]
       ELSE /\ stage' = "panicked"
            /\ builder' = builder
    /\ query' = HeldNoQuery
    /\ body' = HeldNoBody
    /\ UNCHANGED <<outcome, applied, request, sends>>
    /\ UNCHANGED <<serverVars, tableVars, responseVars>>

\* extra_query offered only on a builder that holds neither a typed query
\* nor a body.
ExtraQueryFreshOnly(params) ==
    /\ stage = "builder"
    /\ query = HeldNoQuery
    /\ body = HeldNoBody
    /\ Len(builder.params) < MaxExtra
    /\ builder' = [builder EXCEPT !.params = @ \o params]
    /\ UNCHANGED <<stage, route, query, body, outcome, applied, request,
                   sends>>
    /\ UNCHANGED <<serverVars, tableVars, responseVars>>

\* extra_query, lib.rs 196-206.
ExtraQuery(params) ==
    /\ stage = "builder"
    /\ Len(builder.params) < MaxExtra
    /\ LET s == WithExtraQuery(Held, params)
       IN /\ query' = s.query
          /\ body' = s.body
          /\ builder' = s.builder
    /\ UNCHANGED <<stage, route, outcome, applied, request, sends>>
    /\ UNCHANGED <<serverVars, tableVars, responseVars>>

\* query offered on a builder that already holds a typed query.
SetQueryAgain(v) ==
    /\ stage = "builder"
    /\ route.Query.k = "Query"
    /\ query' = [shape |-> route.Query, val |-> v]
    /\ UNCHANGED <<stage, route, body, builder, outcome, applied, request,
                   sends>>
    /\ UNCHANGED <<serverVars, tableVars, responseVars>>

\* query, lib.rs 208-217.
SetQuery(v) ==
    /\ stage = "builder"
    /\ route.Query.k = "Query"
    /\ query.shape = NoQuery
    /\ LET s == WithQuery(route, Held, v)
       IN /\ query' = s.query
          /\ body' = s.body
          /\ builder' = s.builder
    /\ UNCHANGED <<stage, route, outcome, applied, request, sends>>
    /\ UNCHANGED <<serverVars, tableVars, responseVars>>

\* json, lib.rs 219-228.
SetJson(v) ==
    /\ stage = "builder"
    /\ route.RequestBody.k = "JsonBody"
    /\ body.shape = NoBody
    /\ LET s == WithJson(route, Held, v)
       IN /\ query' = s.query
          /\ body' = s.body
          /\ builder' = s.builder
    /\ UNCHANGED <<stage, route, outcome, applied, request, sends>>
    /\ UNCHANGED <<serverVars, tableVars, responseVars>>

\* build, lib.rs 238-268.  The builder is consumed; query, body and
\* builder keep what it held.
Build ==
    /\ stage = "builder"
    /\ CanBuild(route, query, body)
    /\ LET res == BuildResult(query, body, builder)
       IN /\ outcome' = res.outcome
          /\ applied' = res.applied
          /\ request' = res.request
          /\ stage' = IF res.outcome = "Ok" THEN "request" ELSE "failed"
    /\ UNCHANGED <<route, query, body, builder, sends>>
    /\ UNCHANGED <<serverVars, tableVars, responseVars>>

\* Request::send, lib.rs 275-282: the transport answers or fails.
Send ==
    /\ CanSend(stage)
    /\ sends' = sends + 1
    /\ \E answered \in BOOLEAN :
          stage' = IF answered THEN "response" ELSE "senderror"
    /\ UNCHANGED <<route, query, body, builder, outcome, applied, request>>
    /\ UNCHANGED <<serverVars, tableVars, responseVars>>

\* The replies a server may give: no body at all, or a body of tokens,
\* which may or may not be the JSON of the response type.
ReplyBodies ==
    {[hasBody |-> FALSE, body |-> <<>>]} \cup
    {[hasBody |-> TRUE, body |-> b] :
        b \in {JsonEncode(<<>>), JsonEncode(<<7>>), JsonEncode(<<1, 2, 3>>),
               <<"[", "7">>, <<"7", ",">>, <<>>}}

\* gloo_net's Response::json that decodes the body again on every call.
TransportJsonRereads(resp) ==
    [result |-> IF resp.hasBody
                THEN JsonDecode(resp.body)
                ELSE [ok |-> FALSE, val |-> <<>>],
     response |-> [resp EXCEPT !.bodyUsed = resp.hasBody]]

\* self.response.json().await, lib.rs 315: reading a body that was read
\* already fails; a first read marks the body used and decodes it.
TransportJson(resp) ==
    IF resp.bodyUsed
    THEN [result |-> [ok |-> FALSE, val |-> <<>>], response |-> resp]
    ELSE [result |-> IF resp.hasBody
                     THEN JsonDecode(resp.body)
                     ELSE [ok |-> FALSE, val |-> <<>>],
          response |-> [resp EXCEPT !.bodyUsed = resp.hasBody]]

\* Response::json, lib.rs 311-317; body_used() (302-304) is
\* response.bodyUsed.
ResponseJson ==
    /\ stage = "response"
    /\ response.present
    /\ route.ResponseBody.k = "JsonBody"
    /\ Len(decodes) < MaxDecodes
    /\ LET res == TransportJson(response)
       IN /\ response' = res.response
          /\ decodes' =
                Append(decodes,
                       [ok |-> res.result.ok, val |-> res.result.val,
                        usedBefore |-> response.bodyUsed])
    /\ UNCHANGED <<serverVars, tableVars, callVars>>

\* Response::into_untyped_response, lib.rs 306-308: the wrapper is gone.
IntoUntypedResponse ==
    /\ stage = "response"
    /\ response.present
    /\ response' = [response EXCEPT !.present = FALSE]
    /\ UNCHANGED decodes
    /\ UNCHANGED <<serverVars, tableVars, callVars>>

-----------------------------------------------------------------------------
(* Specifications. *)

vars == <<attempt, handled, modules, descriptors, stage, route, query, body,
          builder, outcome, applied, request, sends, response, decodes>>

InitServer ==
    /\ attempt = NoAttempt
    /\ handled = NoHandled

InitTable ==
    /\ modules = <<CrateRoot>>
    /\ descriptors = {}

InitCall ==
    /\ stage = "start"
    /\ route = Abc
    /\ query = HeldNoQuery
    /\ body = HeldNoBody
    /\ builder = NoBuilder
    /\ outcome = "pending"
    /\ applied = <<>>
    /\ request = NoRequest
    /\ sends = 0

InitResponse ==
    /\ response = NoResponse
    /\ decodes = <<>>

Init ==
    /\ InitServer
    /\ InitTable
    /\ InitCall
    /\ InitResponse

\* One client call attempt, from new() to send().
Next ==
    \/ \E r \in ClientRoutes : New(r)
    \/ \E params \in ExtraParams : ExtraQuery(params)
    \/ \E v \in QueryValues : SetQuery(v)
    \/ \E v \in BodyValues : SetJson(v)
    \/ Build
    \/ Send

Spec == Init /\ [][Next]_vars

\* The compiler is given one handled_by instantiation.
NextHandler ==
    /\ ~attempt.made
    /\ \E rt \in ShapeRoutes \cup {Abc}, args \in ArgLists,
          out \in OutTypes :
           HandledBy(rt, args, out)

SpecHandler == Init /\ [][NextHandler]_vars

\* The route table is expanded, one routes! invocation at a time.
NextTable ==
    \E parent \in 1..(MaxModules + 1), scope \in Scopes,
       outer \in OuterRouteLists :
        RoutesMacro(parent, scope, outer)

SpecTable == Init /\ [][NextTable]_vars

\* A call that was built and sent for route r, the builder having been
\* given the query q and the body b the route declares.
Received(r, q, b) ==
    /\ stage = "response"
    /\ route = r
    /\ query = q
    /\ body = b
    /\ builder = [method |-> r.METHOD, url |-> r.URI, params |-> <<>>]
    /\ outcome = "Ok"
    /\ applied = <<"query", "body">>
    /\ request = BuildResult(q, b, builder).request
    /\ sends = 1

\* The state after send() has returned a Response.
InitReceived ==
    /\ InitServer
    /\ InitTable
    /\ \E r \in {c \in ClientRoutes :
                    /\ c.METHOD \in Methods
                    /\ TransportAccepts([method |-> c.METHOD],
                                        c.RequestBody # NoBody)} :
          Received(r,
                   IF r.Query = NoQuery THEN HeldNoQuery
                   ELSE [shape |-> r.Query,
                         val |-> [ok |-> TRUE,
                                  pairs |-> << <<(<<"k">>), (<<"a">>)>> >>]],
                   IF r.RequestBody = NoBody THEN HeldNoBody
                   ELSE [shape |-> r.RequestBody,
                         val |-> [ok |-> TRUE, val |-> <<1, 2, 3>>]])
    /\ \E reply \in ReplyBodies :
          response = [present |-> TRUE, hasBody |-> reply.hasBody,
                      bodyUsed |-> FALSE, body |-> reply.body]
    /\ decodes = <<>>

\* What the holder of a Response does with it.
NextResponse ==
    \/ ResponseJson
    \/ IntoUntypedResponse

SpecResponse == InitReceived /\ [][NextResponse]_vars

-----------------------------------------------------------------------------
(* The claims about handled_by and the two relations, under SpecHandler.   *)

\* C2: handled_by returns a Handled value only for a handler whose
\* argument list is compatible with the route's (Query, RequestBody) and
\* whose output is compatible with the route's ResponseBody; an
\* instantiation that fails either bound is rejected when it is written
\* and leaves no Handled value.
C2_HandledOnlyIfCompatible ==
    /\ handled.present =>
          /\ FromRequest(handled.args, handled.route.Query,
                         handled.route.RequestBody)
          /\ IntoResponse(handled.out, handled.route.ResponseBody)
    /\ (attempt.made /\ ~(attempt.argsOk /\ attempt.outOk)) =>
          ~handled.present
    /\ handled.present =>
          /\ attempt.made
          /\ handled.route = attempt.route
          /\ handled.args = attempt.args
          /\ handled.out = attempt.out

\* C2 witness: a handler of two or more arguments, one of them an
\* extractor of the body, has been accepted.
C2_Witness ==
    /\ handled.present
    /\ Len(handled.args.elems) >= 2
    /\ \E i \in 1..Len(handled.args.elems) :
          handled.args.elems[i].k = "ActixJson"

\* C8: a tuple of 0..16 elements is compatible with a (Query, Body) pair
\* exactly when each element is compatible with that pair; the empty tuple
\* always is; a tuple of more than 16 elements never is.
C8_TupleIffEveryElement ==
    attempt.made =>
        LET es == attempt.args.elems
            q == attempt.route.Query
            b == attempt.route.RequestBody
        IN /\ Len(es) <= MaxArity =>
                (attempt.argsOk <=>
                    \A i \in 1..Len(es) : FromRequest(es[i], q, b))
           /\ Len(es) = 0 => attempt.argsOk
           /\ Len(es) > MaxArity => ~attempt.argsOk

\* C8 witness: a tuple longer than 16 whose every element is compatible
\* has been rejected.
C8_Witness ==
    /\ attempt.made
    /\ Len(attempt.args.elems) > MaxArity
    /\ \A i \in 1..Len(attempt.args.elems) :
          FromRequest(attempt.args.elems[i], attempt.route.Query,
                      attempt.route.RequestBody)
    /\ ~attempt.argsOk

\* C12: actix's Json<T> is compatible with a (Query, Body) pair exactly
\* when Body = JsonBody<T> for the same T, whatever Query is; actix's
\* Query<T> exactly when Query = Query<T> for the same T, whatever Body
\* is.  Neither is compatible with NoBody / NoQuery or with another T.
C12_ExtractorsMatchTheirShape ==
    attempt.made =>
        LET es == attempt.args.elems
            q == attempt.route.Query
            b == attempt.route.RequestBody
        IN /\ \A i \in 1..Len(es) :
                 (attempt.argsOk /\ es[i].k = "ActixJson") =>
                    (b.k = "JsonBody" /\ b.t = es[i].t)
           /\ \A i \in 1..Len(es) :
                 (attempt.argsOk /\ es[i].k = "ActixQuery") =>
                    (q.k = "Query" /\ q.t = es[i].t)
           /\ (Len(es) = 1 /\ es[1].k = "ActixJson") =>
                 (attempt.argsOk <=> (b.k = "JsonBody" /\ b.t = es[1].t))
           /\ (Len(es) = 1 /\ es[1].k = "ActixQuery") =>
                 (attempt.argsOk <=> (q.k = "Query" /\ q.t = es[1].t))

\* C12 witness: a handler whose one argument is Json<T2> was rejected for
\* a route whose body is JsonBody<T1>.
C12_Witness ==
    /\ attempt.made
    /\ attempt.args = Tuple(<<ActixJson("T2")>>)
    /\ attempt.route.RequestBody = JsonBody("T1")
    /\ ~attempt.argsOk
    /\ ~handled.present

C19_JsonResponseLeastSet ==
    (attempt.made /\ attempt.route.ResponseBody.k = "JsonBody") =>
        /\ attempt.out.k # "Result" => ~attempt.outOk
        /\ attempt.outOk =>
              /\ attempt.out.k = "Result"
              /\ IntoResponse(attempt.out.elems[1],
                              attempt.route.ResponseBody)
        /\ ~attempt.outOk
        /\ ~handled.present

\* C19 witness: a handler with compatible arguments whose output is a
\* Result of a Result of Json<T2> was rejected for a route whose response
\* is JsonBody<T2>.
C19_Witness ==
    /\ attempt.made
    /\ attempt.route.ResponseBody = JsonBody("T2")
    /\ attempt.out = ResultOf(ResultOf(ActixJson("T2"), Opaque),
                              ActixJson("T2"))
    /\ attempt.argsOk
    /\ ~attempt.outOk
    /\ ~handled.present

\* C9, as claimed: an argument list made of NoCheck<X> elements only is
\* compatible with every (Query, Body) pair, and handled_by accepts it
\* whenever the output is compatible.
C9_NoCheckIsUniversal ==
    (/\ attempt.made
     /\ Len(attempt.args.elems) \in 1..MaxArity
     /\ \A i \in 1..Len(attempt.args.elems) :
           attempt.args.elems[i].k = "NoCheck") =>
        /\ attempt.argsOk
        /\ attempt.outOk => handled.present

\* C10: every output type is compatible with a NoBody response; and
\* Result<T, E> is compatible with JsonBody<R> exactly when T is, whatever
\* E is.
C10_ResponseRelation ==
    attempt.made =>
        LET r == attempt.route.ResponseBody
            out == attempt.out
        IN /\ r = NoBody => attempt.outOk
           /\ (r.k = "JsonBody" /\ out.k = "Result") =>
                /\ attempt.outOk <=> IntoResponse(out.elems[1], r)
                /\ \A E \in OutTypes :
                      IntoResponse(ResultOf(out.elems[1], E), r)
                          <=> attempt.outOk

\* C10 witness: a handler returning Result<Result<T, E>, E'> was checked
\* against a route with a JsonBody response.
C10_Witness ==
    /\ attempt.made
    /\ attempt.route.ResponseBody.k = "JsonBody"
    /\ attempt.out.k = "Result"
    /\ attempt.out.elems[1].k = "Result"

-----------------------------------------------------------------------------
(* The claim about the route table, under SpecTable.                       *)

\* The scope prefixes of module m and of every module around it,
\* outermost (the crate root's "/123") first.
RECURSIVE ScopePath(_)
ScopePath(m) ==
    IF m = 1
    THEN modules[1].scope
    ELSE ScopePath(modules[m].parent) \o modules[m].scope

\* C3, as claimed: a descriptor's URI is the prefixes of every scope
\* around it, its own module included, then its URI_PART; Abc
\* under root "/123" and scope "/xyz" has URI "/123/xyz/abc".
C3_UriIncludesOwnScope ==
    \A d \in descriptors :
        /\ d.route.URI = ScopePath(d.mod) \o d.route.URI_PART
        /\ (/\ d.route.name = "Abc"
            /\ modules[d.mod].parent = 1
            /\ modules[d.mod].scope = "/xyz") =>
              d.route.URI = "/123/xyz/abc"

\* C3, amended: a descriptor's URI is the prefixes of the scopes around
\* the module whose routes! lists it as an outer route, outermost first,
\* then its URI_PART; that module's own scope is not part of it.  Abc,
\* an outer route of mod x (scope "/xyz") under root "/123", has URI
\* "/123/abc", and x::URI is "/123/xyz".
C3_UriOfOuterRoute ==
    /\ \A d \in descriptors :
          /\ d.route.URI =
                ScopePath(modules[d.mod].parent) \o d.route.URI_PART
          /\ (/\ d.route.name = "Abc"
              /\ modules[d.mod].parent = 1
              /\ modules[d.mod].scope = "/xyz") =>
                /\ d.route.URI = "/123/abc"
                /\ modules[d.mod].URI = "/123/xyz"
    /\ \A m \in 1..Len(modules) : modules[m].URI = ScopePath(m)

\* C3 witness: the source's table (mod x with scope "/xyz" and outer
\* route Abc in the crate root) and a module nested two deep with a route.
C3_Witness ==
    /\ \E d \in descriptors :
          /\ d.route.name = "Abc"
          /\ modules[d.mod].parent = 1
          /\ modules[d.mod].scope = "/xyz"
    /\ \E d \in descriptors :
          /\ modules[d.mod].parent # 1
          /\ modules[modules[d.mod].parent].parent # 1

-----------------------------------------------------------------------------
(* The claims about one client call, under Spec.                           *)

\* C1: build() has been applied only to a builder whose held query and
\* held body are exactly what the route declares: no typed query for
\* NoQuery, a typed query for Query<T>, no body for NoBody, a body for
\* JsonBody<T>.
C1_BuildOnlyWhenShapesMatch ==
    outcome # "pending" =>
        /\ query.shape = route.Query
        /\ body.shape = route.RequestBody
        /\ route.Query = NoQuery => query = HeldNoQuery
        /\ route.Query.k = "Query" =>
              (query.shape.k = "Query" /\ query.val \in QueryValues)
        /\ route.RequestBody = NoBody => body = HeldNoBody
        /\ route.RequestBody.k = "JsonBody" =>
              (body.shape.k = "JsonBody" /\ body.val \in BodyValues)

\* C1 witness: build() was applied for a route that declares a query and
\* a body, after extra_query.
C1_Witness ==
    /\ outcome # "pending"
    /\ route.Query.k = "Query"
    /\ route.RequestBody.k = "JsonBody"
    /\ builder.params # <<>>

\* C4: build() encodes the query first.  A query that fails to encode
\* gives QueryError and the body is not encoded; a body that fails after
\* the query succeeded (its value does not serialize, or the transport
\* refuses the request) gives BodyError; a Request is made exactly when
\* both succeed; no failure is dropped.
C4_QueryBeforeBody ==
    outcome # "pending" =>
        LET qFails == query.shape.k = "Query" /\ ~query.val.ok
            bFails == \/ body.shape.k = "JsonBody" /\ ~body.val.ok
                      \/ ~TransportAccepts(builder,
                                           body.shape.k = "JsonBody")
        IN /\ applied # <<>> /\ applied[1] = "query"
           /\ qFails =>
                /\ outcome = "QueryError"
                /\ applied = <<"query">>
                /\ request = NoRequest
                /\ stage = "failed"
           /\ (~qFails /\ bFails) =>
                /\ outcome = "BodyError"
                /\ applied = <<"query", "body">>
                /\ request = NoRequest
                /\ stage = "failed"
           /\ outcome = "Ok" <=> (~qFails /\ ~bFails)
           /\ outcome = "Ok" =>
                /\ applied = <<"query", "body">>
                /\ request # NoRequest
                /\ stage \in {"request", "response", "senderror"}

\* C4 witness: build() returned QueryError for a builder whose body would
\* have failed to encode as well.
C4_Witness ==
    /\ outcome = "QueryError"
    /\ body.shape.k = "JsonBody"
    /\ ~body.val.ok

\* C5: the transport is asked to send only after build() returned a
\* Request; after build() returned an error nothing was sent and nothing
\* can be.
C5_NoSendWithoutBuild ==
    /\ sends > 0 => outcome = "Ok"
    /\ outcome \in {"QueryError", "BodyError"} =>
          (sends = 0 /\ stage = "failed")
    /\ stage \in {"start", "builder", "panicked", "request"} => sends = 0
    /\ sends <= 1

\* C5 witness: a built request was sent.
C5_Witness ==
    /\ sends = 1
    /\ stage \in {"response", "senderror"}
    /\ outcome = "Ok"

\* C6, as claimed: for a route declaring Query<T> and JsonBody<U>, a
\* query value t and a body value u that both serialize, and no
\* extra_query, build() succeeds, the request's query string reads back
\* as exactly the pairs of t, and its body decodes to u.
C6_RequestCarriesQueryAndBody ==
    (/\ outcome # "pending"
     /\ route.Query.k = "Query"
     /\ route.RequestBody.k = "JsonBody"
     /\ query.val.ok
     /\ body.val.ok
     /\ builder.params = <<>>) =>
        /\ outcome = "Ok"
        /\ FormParse(request.search) = query.val.pairs
        /\ JsonDecode(request.body) = [ok |-> TRUE, val |-> body.val.val]

\* C11, as claimed: for a route with Query = NoQuery and RequestBody =
\* NoBody, build() applied to the builder new() returned succeeds, and the
\* request has an empty query string and no body.
C11_PlainBuildAlwaysSucceeds ==
    (/\ outcome # "pending"
     /\ route.Query = NoQuery
     /\ route.RequestBody = NoBody
     /\ builder.params = <<>>) =>
        /\ outcome = "Ok"
        /\ request.search = <<>>
        /\ ~request.hasBody

\* C11: for a route with Query = NoQuery and RequestBody = NoBody, build()
\* is applicable to the builder new() returned; the query step cannot
\* fail; the body step is the transport's build(), and build() returns
\* BodyError exactly when the transport refuses the request (the verbs
\* CONNECT and TRACE); otherwise it succeeds and the request has the
\* route's verb and URI, an empty query string and no body.
C11_PlainBuild ==
    /\ (/\ stage = "builder"
        /\ route.Query = NoQuery
        /\ route.RequestBody = NoBody) =>
            /\ query = HeldNoQuery
            /\ body = HeldNoBody
            /\ CanBuild(route, query, body)
    /\ (/\ outcome # "pending"
        /\ route.Query = NoQuery
        /\ route.RequestBody = NoBody
        /\ builder.params = <<>>) =>
            /\ outcome # "QueryError"
            /\ outcome = "BodyError" <=> route.METHOD \in {"CONNECT", "TRACE"}
            /\ outcome = "Ok" =>
                  request = [method |-> route.METHOD, url |-> route.URI,
                             search |-> <<>>, hasBody |-> FALSE,
                             body |-> <<>>]

\* C11 witness: build() was applied to the builder new() returned for a
\* GET route with no query and no body, and made a request.
C11_Witness ==
    /\ stage = "request"
    /\ outcome = "Ok"
    /\ route.METHOD = "GET"
    /\ route.Query = NoQuery
    /\ route.RequestBody = NoBody
    /\ builder.params = <<>>

\* C14: new() for a route whose METHOD is none of the nine verbs ends the
\* call: no builder is made, no verb is substituted, and no query, json,
\* build or send follows.  For each of the nine verbs the builder, and
\* the request built from it, has that verb and the route's URI.
C14_NewPanicsOrKeepsVerb ==
    LET nine == {"GET", "POST", "PUT", "DELETE", "HEAD", "OPTIONS",
                 "CONNECT", "PATCH", "TRACE"}
    IN /\ stage # "start" =>
             (stage = "panicked" <=> route.METHOD \notin nine)
       /\ stage = "panicked" =>
             /\ builder = NoBuilder
             /\ query = HeldNoQuery
             /\ body = HeldNoBody
             /\ outcome = "pending"
             /\ applied = <<>>
             /\ request = NoRequest
             /\ sends = 0
       /\ stage \notin {"start", "panicked"} =>
             /\ builder.method = route.METHOD
             /\ builder.url = route.URI
       /\ outcome = "Ok" =>
             /\ request.method = route.METHOD
             /\ request.url = route.URI

\* C14 witness: new() was called for a route whose METHOD is an extension
\* verb.
C14_Witness ==
    /\ stage = "panicked"
    /\ route.METHOD = ExtensionMethod
    /\ builder = NoBuilder

\* C15: query(v) is applicable exactly on a builder of a route declaring
\* Query<T> that holds no typed query, json(v) exactly on a builder of a
\* route declaring JsonBody<T> that holds no body, so each is used at most
\* once per builder.  query(v) stores v and leaves the held body and the
\* transport's builder unchanged; json(v) stores v and leaves the held
\* query and the transport's builder unchanged.
C15_TypedSettersOnceAndFramed ==
    /\ []((ENABLED (\E v \in QueryValues : SetQuery(v))) <=>
              (/\ stage = "builder"
               /\ route.Query.k = "Query"
               /\ query = HeldNoQuery))
    /\ []((ENABLED (\E v \in BodyValues : SetJson(v))) <=>
              (/\ stage = "builder"
               /\ route.RequestBody.k = "JsonBody"
               /\ body = HeldNoBody))
    /\ [][query' # query =>
              (/\ stage = "builder" /\ stage' = "builder"
               /\ route.Query.k = "Query"
               /\ query = HeldNoQuery
               /\ query'.shape = route.Query
               /\ query'.val \in QueryValues
               /\ body' = body
               /\ builder' = builder
               /\ route' = route)]_vars
    /\ [][body' # body =>
              (/\ stage = "builder" /\ stage' = "builder"
               /\ route.RequestBody.k = "JsonBody"
               /\ body = HeldNoBody
               /\ body'.shape = route.RequestBody
               /\ body'.val \in BodyValues
               /\ query' = query
               /\ builder' = builder
               /\ route' = route)]_vars

\* C15 witness: a builder that was given extra pairs, then a typed query
\* and a body, and offers neither setter any more.
C15_Witness ==
    /\ stage = "builder"
    /\ builder.params # <<>>
    /\ query.shape.k = "Query"
    /\ query.val.ok /\ query.val.pairs # <<>>
    /\ body.shape.k = "JsonBody"
    /\ body.val.ok /\ body.val.val # <<>>
    /\ ~ENABLED (\E v \in QueryValues : SetQuery(v))
    /\ ~ENABLED (\E v \in BodyValues : SetJson(v))

\* C16: extra_query is applicable on every builder, whatever it holds and
\* however often it was called before (up to the MaxExtra pairs a
\* builder is given here); it appends its pairs, as given, to the
\* transport's builder and leaves the verb, the URL, the held query, the
\* held body and the applicability of build() as they were.
C16_ExtraQueryAlwaysAndFramed ==
    /\ []((ENABLED (\E p \in ExtraParams : ExtraQuery(p))) <=>
              (stage = "builder" /\ Len(builder.params) < MaxExtra))
    /\ [][(stage # "start" /\ builder' # builder) =>
              (/\ stage = "builder" /\ stage' = "builder"
               /\ \E p \in ExtraParams :
                     builder'.params = builder.params \o p
               /\ builder'.method = builder.method
               /\ builder'.url = builder.url
               /\ query' = query
               /\ body' = body
               /\ route' = route
               /\ CanBuild(route', query', body') <=>
                     CanBuild(route, query, body))]_vars

\* C16 witness: a builder holding a typed query and a body that was given
\* extra pairs by two calls.
C16_Witness ==
    /\ stage = "builder"
    /\ query.shape.k = "Query"
    /\ body.shape.k = "JsonBody"
    /\ Len(builder.params) = 2
    /\ builder.params[1] # builder.params[2]

\* C17: on a builder of a route declaring Query<T> and JsonBody<U> that
\* holds neither yet, for every t, every u and every extra_query made
\* between the two setters, query(t) then json(u) and json(u) then
\* query(t) return builders with equal held query, held body and
\* transport builder; build() exists on both and returns the same
\* request or the same error.
C17_SettersCommute ==
    (/\ stage = "builder"
     /\ route.Query.k = "Query"
     /\ route.RequestBody.k = "JsonBody"
     /\ query = HeldNoQuery
     /\ body = HeldNoBody) =>
        \A t \in QueryValues, u \in BodyValues,
           e \in {<<>>} \cup ExtraParams :
            LET qj == WithJson(route,
                         WithExtraQuery(WithQuery(route, Held, t), e), u)
                jq == WithQuery(route,
                         WithExtraQuery(WithJson(route, Held, u), e), t)
            IN /\ qj = jq
               /\ qj.query.val = t
               /\ qj.body.val = u
               /\ qj.builder.params = builder.params \o e
               /\ CanBuild(route, qj.query, qj.body)
               /\ CanBuild(route, jq.query, jq.body)
               /\ BuildResult(qj.query, qj.body, qj.builder) =
                     BuildResult(jq.query, jq.body, jq.builder)

\* C17 witness: a builder given extra pairs and then both a typed query
\* and a body was built into a request.
C17_Witness ==
    /\ stage = "request"
    /\ outcome = "Ok"
    /\ builder.params # <<>>
    /\ query.shape.k = "Query" /\ query.val.pairs # <<>>
    /\ body.shape.k = "JsonBody" /\ body.val.val # <<>>
    /\ request.hasBody

\* C18: the query string of a built request reads back as the pairs given
\* to extra_query, in call order, followed by one pair per pair of the
\* typed query, in the typed query's order and under its keys; the typed
\* pairs are appended by build() and by no earlier step.
C18_ExtraPairsBeforeTypedPairs ==
    /\ stage = "builder" =>
          \A i \in 1..Len(builder.params) :
              \E p \in ExtraParams : builder.params[i] = p[1]
    /\ outcome = "Ok" =>
          LET read == FormParse(request.search)
              extra == builder.params
              typed == query.val.pairs
          IN /\ Len(read) = Len(extra) + Len(typed)
             /\ SubSeq(read, 1, Len(extra)) = extra
             /\ \A i \in 1..Len(typed) :
                   read[Len(extra) + i][1] = typed[i][1]

\* C18 witness: a request built from two extra pairs and a typed query of
\* two pairs.
C18_Witness ==
    /\ outcome = "Ok"
    /\ Len(builder.params) = 2
    /\ query.shape.k = "Query"
    /\ Len(query.val.pairs) = 2
    /\ query.val.pairs[1][1] # query.val.pairs[2][1]

-----------------------------------------------------------------------------
(* The claim about a Response, under SpecResponse.                         *)

\* C7: Response::json succeeds at most once on one Response; a call made
\* when body_used() is already true fails.
C7_JsonAtMostOnce ==
    /\ \A i \in 1..Len(decodes) : decodes[i].usedBefore => ~decodes[i].ok
    /\ \A i, j \in 1..Len(decodes) :
          (decodes[i].ok /\ decodes[j].ok) => i = j
    /\ (\E i \in 1..Len(decodes) : decodes[i].ok) => response.bodyUsed

\* C7 witness: json() succeeded, then was called again twice.
C7_Witness ==
    /\ Len(decodes) = 3
    /\ decodes[1].ok
    /\ decodes[2].usedBefore
    /\ decodes[3].usedBefore

=============================================================================
